---- MODULE Spec2Model ----
(***************************************************************************)
(* ChunkType of src/chunk_type.rs: a 4-byte PNG chunk type code with its   *)
(* constructors (new, try_from, from_str), its queries, equality and its   *)
(* Display rendering.                                                      *)
(*                                                                         *)
(* A byte is a number in 0..255, a [u8; 4] a sequence of four of them, a   *)
(* &str a sequence of Unicode scalar values; s.as_bytes() and              *)
(* String::from_utf8 are the UTF-8 encoder and the validating decoder.     *)
(* The state is one program variable holding a ChunkType (or nothing),     *)
(* how and from what it was constructed, and the last call with its        *)
(* argument and its outcome.  A panic ends the program.                    *)
(***************************************************************************)
EXTENDS Integers, Sequences, FiniteSets

VARIABLES chunk_type, origin, input, op, arg, ret, panicked

vars == <<chunk_type, origin, input, op, arg, ret, panicked>>

----------------------------------------------------------------------------
(* Bounds and input samples *)

\* longest text (in characters) handed to from_str
MaxLen == 5

\* bytes handed to new / try_from: a digit, the ends of A-Z and a-z, the
\* bytes next to them, a UTF-8 continuation byte and a UTF-8 lead byte
ByteSamples == {49, 64, 65, 90, 91, 97, 122, 169, 195}

\* bytes of the right-hand operands of ==
EqSamples == {65, 97}

\* characters of the texts handed to from_str: '1', 'A', 'Z', 'a', 'z',
\* U+00E9 (2 bytes in UTF-8), U+1F600 (4 bytes)
CharSamples == {49, 65, 90, 97, 122, 233, 128512}

ByteArrays == [1..4 -> ByteSamples]

EqArrays == [1..4 -> EqSamples]

Texts == UNION {[1..n -> CharSamples] : n \in 0..MaxLen}

----------------------------------------------------------------------------
(* Values *)

NoValue == [none |-> TRUE]

Ok(v) == [tag |-> "Ok", val |-> v]

Err(msg) == [tag |-> "Err", val |-> msg]

Panic(msg) == [tag |-> "Panic", val |-> msg]

Val(v) == [tag |-> "Val", val |-> v]

UnwrapMsg == "called Result::unwrap() on an Err value"

\* arr[i] of Rust, indices from 0
At(arr, i) == arr[i + 1]

----------------------------------------------------------------------------
(* u8::is_ascii_* *)

is_ascii_uppercase(b) == 65 <= b /\ b <= 90

is_ascii_lowercase(b) == 97 <= b /\ b <= 122

is_ascii_alphabetic(b) == is_ascii_uppercase(b) \/ is_ascii_lowercase(b)

----------------------------------------------------------------------------
(* UTF-8 *)

\* the UTF-8 encoding of one Unicode scalar value
EncodeChar(c) ==
  IF c < 128 THEN <<c>>
  ELSE IF c < 2048 THEN <<192 + (c \div 64), 128 + (c % 64)>>
  ELSE IF c < 65536 THEN
    <<224 + (c \div 4096), 128 + ((c \div 64) % 64), 128 + (c % 64)>>
  ELSE
    <<240 + (c \div 262144), 128 + ((c \div 4096) % 64),
      128 + ((c \div 64) % 64), 128 + (c % 64)>>

RECURSIVE as_bytes(_)
\* str::as_bytes: the UTF-8 bytes of the text
as_bytes(s) ==
  IF s = <<>> THEN <<>> ELSE EncodeChar(Head(s)) \o as_bytes(Tail(s))

IsCont(b) == 128 <= b /\ b <= 191

\* the length of the well-formed UTF-8 sequence that starts bs, 0 if none
Utf8Width(bs) ==
  LET n == Len(bs)
      b1 == bs[1]
  IN  IF b1 < 128 THEN 1
      ELSE IF 194 <= b1 /\ b1 <= 223 THEN
        IF n >= 2 /\ IsCont(bs[2]) THEN 2 ELSE 0
      ELSE IF 224 <= b1 /\ b1 <= 239 THEN
        IF /\ n >= 3
           /\ \/ b1 = 224 /\ 160 <= bs[2] /\ bs[2] <= 191
              \/ b1 \in (225..236) \cup {238, 239} /\ IsCont(bs[2])
              \/ b1 = 237 /\ 128 <= bs[2] /\ bs[2] <= 159
           /\ IsCont(bs[3])
        THEN 3 ELSE 0
      ELSE IF 240 <= b1 /\ b1 <= 244 THEN
        IF /\ n >= 4
           /\ \/ b1 = 240 /\ 144 <= bs[2] /\ bs[2] <= 191
              \/ b1 \in 241..243 /\ IsCont(bs[2])
              \/ b1 = 244 /\ 128 <= bs[2] /\ bs[2] <= 143
           /\ IsCont(bs[3])
           /\ IsCont(bs[4])
        THEN 4 ELSE 0
      ELSE 0

\* the scalar value of a well-formed sequence of w bytes at the head of bs
DecodeChar(bs, w) ==
  IF w = 1 THEN bs[1]
  ELSE IF w = 2 THEN (bs[1] - 192) * 64 + (bs[2] - 128)
  ELSE IF w = 3 THEN
    (bs[1] - 224) * 4096 + (bs[2] - 128) * 64 + (bs[3] - 128)
  ELSE
    (bs[1] - 240) * 262144 + (bs[2] - 128) * 4096
      + (bs[3] - 128) * 64 + (bs[4] - 128)

RECURSIVE from_utf8(_)
\* String::from_utf8: Ok(text) when the bytes are well-formed UTF-8
from_utf8(bs) ==
  IF bs = <<>> THEN Ok(<<>>)
  ELSE LET w == Utf8Width(bs)
       IN  IF w = 0 THEN Err("invalid utf-8 sequence")
           ELSE LET rest == from_utf8(SubSeq(bs, w + 1, Len(bs)))
                IN  IF rest.tag = "Ok"
                    THEN Ok(<<DecodeChar(bs, w)>> \o rest.val)
                    ELSE rest

----------------------------------------------------------------------------
(* impl ChunkType *)

\* mutant: the bytes are forced into ASCII
new_ascii(chunk) == [chunk |-> [i \in 1..4 |-> chunk[i] % 128]]

new(chunk) == [chunk |-> chunk]

bytes(self) == self.chunk

is_reserved_bit_valid(self) == is_ascii_uppercase(At(self.chunk, 2))

\* mutant: the loop stops one byte early
is_alphabetic_short(self) ==
  \A i \in 0..2 : is_ascii_alphabetic(At(self.chunk, i))

is_alphabetic(self) ==
  \A i \in 0..3 : is_ascii_alphabetic(At(self.chunk, i))

\* mutant: the reserved bit is not looked at
is_valid_alphabetic(self) == is_alphabetic(self)

is_valid(self) ==
  LET condition1 == is_reserved_bit_valid(self)
      condition2 == is_alphabetic(self)
  IN  condition1 /\ condition2

is_critical(self) == is_ascii_uppercase(At(self.chunk, 0))

\* mutant: the wrong byte is looked at
is_public_first(self) == is_ascii_uppercase(At(self.chunk, 0))

is_public(self) == is_ascii_uppercase(At(self.chunk, 1))

is_safe_to_copy(self) == is_ascii_lowercase(At(self.chunk, 3))

\* mutant: the stricter is_valid gates construction
try_from_strict(value) ==
  LET new_chunk == new(value)
  IN  IF is_valid(new_chunk)
      THEN Ok(new_chunk)
      ELSE Err("Chunk isn't valid")

\* impl TryFrom<[u8; 4]>
try_from(value) ==
  LET new_chunk == new(value)
  IN  IF is_alphabetic(new_chunk)
      THEN Ok(new_chunk)
      ELSE Err("Chunk isn't valid")

\* b.to_ascii_lowercase()
to_ascii_lowercase(b) == IF is_ascii_uppercase(b) THEN b + 32 ELSE b

\* mutant: the bytes are compared ignoring ASCII case
eq_ignore_ascii_case(self, other) ==
  \A i \in 0..3 :
    to_ascii_lowercase(At(self.chunk, i)) = to_ascii_lowercase(At(other.chunk, i))

\* impl PartialEq: the zipped loop over both arrays
eq(self, other) ==
  \A i \in 0..3 : At(self.chunk, i) = At(other.chunk, i)

\* <&[u8; 4]>::try_from(&[u8]): the slice has to hold exactly 4 bytes
try_into(slice) ==
  IF Len(slice) = 4 THEN Ok(slice) ELSE Err("TryFromSliceError")

\* mutant: the text is lowercased before it is stored
from_str_lowercase(s) ==
  LET slice == as_bytes(s)
      array == try_into(slice)
  IN  IF array.tag = "Err" THEN Panic(UnwrapMsg)
      ELSE LET new_chunk ==
                 new([i \in 1..4 |-> to_ascii_lowercase(array.val[i])])
           IN  IF is_alphabetic(new_chunk)
               THEN Ok(new_chunk)
               ELSE Err("Chunk is invalid")

\* impl FromStr
from_str(s) ==
  LET slice == as_bytes(s)
      array == try_into(slice)
  IN  IF array.tag = "Err" THEN Panic(UnwrapMsg)
      ELSE LET new_chunk == new(array.val)
           IN  IF is_alphabetic(new_chunk)
               THEN Ok(new_chunk)
               ELSE Err("Chunk is invalid")

\* mutant: the bytes are rendered last to first
fmt_reversed(self) ==
  LET string == from_utf8([i \in 1..4 |-> self.chunk[5 - i]])
  IN  IF string.tag = "Err" THEN Panic(UnwrapMsg) ELSE Val(string.val)

\* impl Display: fmt, through ToString::to_string
fmt(self) ==
  LET string == from_utf8(self.chunk)
  IN  IF string.tag = "Err" THEN Panic(UnwrapMsg) ELSE Val(string.val)

----------------------------------------------------------------------------
(* The program *)

Init ==
  /\ chunk_type = NoValue
  /\ origin = "none"
  /\ input = <<>>
  /\ op = "none"
  /\ arg = <<>>
  /\ ret = Val(FALSE)
  /\ panicked = FALSE

\* the outcome of a constructor call, bound once to the program variable
Construct(name, a, r) ==
  /\ op' = name
  /\ arg' = a
  /\ ret' = r
  /\ panicked' = (r.tag = "Panic")
  /\ chunk_type' = IF r.tag \in {"Ok", "Val"} THEN r.val ELSE NoValue
  /\ origin' = IF r.tag \in {"Ok", "Val"} THEN name ELSE "none"
  /\ input' = IF r.tag \in {"Ok", "Val"} THEN a ELSE <<>>

\* the outcome of a call on the held value, which it borrows immutably
Query(name, a, r) ==
  /\ op' = name
  /\ arg' = a
  /\ ret' = r
  /\ panicked' = (r.tag = "Panic")
  /\ UNCHANGED <<chunk_type, origin, input>>

New ==
  /\ op = "none"
  /\ \E b \in ByteArrays : Construct("new", b, Val(new(b)))

TryFrom ==
  /\ op = "none"
  /\ \E b \in ByteArrays : Construct("try_from", b, try_from(b))

FromStr ==
  /\ op = "none"
  /\ \E s \in Texts : Construct("from_str", s, from_str(s))

Bytes ==
  /\ ~panicked
  /\ chunk_type # NoValue
  /\ Query("bytes", <<>>, Val(bytes(chunk_type)))

IsReservedBitValid ==
  /\ ~panicked
  /\ chunk_type # NoValue
  /\ Query("is_reserved_bit_valid", <<>>, Val(is_reserved_bit_valid(chunk_type)))

IsValid ==
  /\ ~panicked
  /\ chunk_type # NoValue
  /\ Query("is_valid", <<>>, Val(is_valid(chunk_type)))

IsCritical ==
  /\ ~panicked
  /\ chunk_type # NoValue
  /\ Query("is_critical", <<>>, Val(is_critical(chunk_type)))

IsPublic ==
  /\ ~panicked
  /\ chunk_type # NoValue
  /\ Query("is_public", <<>>, Val(is_public(chunk_type)))

IsSafeToCopy ==
  /\ ~panicked
  /\ chunk_type # NoValue
  /\ Query("is_safe_to_copy", <<>>, Val(is_safe_to_copy(chunk_type)))

IsAlphabetic ==
  /\ ~panicked
  /\ chunk_type # NoValue
  /\ Query("is_alphabetic", <<>>, Val(is_alphabetic(chunk_type)))

\* chunk_type == other, other built by new
Eq ==
  /\ ~panicked
  /\ chunk_type # NoValue
  /\ \E b \in EqArrays \cup {chunk_type.chunk} :
       Query("eq", new(b), Val(eq(chunk_type, new(b))))

\* other == chunk_type
EqFlipped ==
  /\ ~panicked
  /\ chunk_type # NoValue
  /\ \E b \in EqArrays :
       Query("eq_flipped", new(b), Val(eq(new(b), chunk_type)))

ToString ==
  /\ ~panicked
  /\ chunk_type # NoValue
  /\ Query("to_string", <<>>, fmt(chunk_type))

Next ==
  \/ New
  \/ TryFrom
  \/ FromStr
  \/ Bytes
  \/ IsReservedBitValid
  \/ IsValid
  \/ IsCritical
  \/ IsPublic
  \/ IsSafeToCopy
  \/ IsAlphabetic
  \/ Eq
  \/ EqFlipped
  \/ ToString

Spec == Init /\ [][Next]_vars

----------------------------------------------------------------------------
(* Properties *)

Upper(b) == b \in 65..90

Lower(b) == b \in 97..122

Letter(b) == Upper(b) \/ Lower(b)

AllLetters(b) == \A i \in 1..4 : Letter(b[i])

\* the bytes the held value was constructed from
GivenBytes == IF origin = "from_str" THEN as_bytes(input) ELSE input

\* C1: try_from(b) succeeds iff every byte of b is an ASCII letter, fails
\* with an error value otherwise, and bytes() of the value it returned is b.
C1_TryFromAcceptsLetters ==
  /\ op = "try_from" =>
       /\ ret.tag = (IF AllLetters(arg) THEN "Ok" ELSE "Err")
       /\ ret.tag = "Ok" => chunk_type # NoValue /\ \A i \in 1..4 : chunk_type.chunk[i] = arg[i]
       /\ ret.tag = "Err" => chunk_type = NoValue
  /\ op = "bytes" /\ origin = "try_from" => ret = Val(input)

C1_Witness ==
  /\ op = "bytes"
  /\ origin = "try_from"
  /\ ret = Val(<<65, 122, 90, 97>>)

\* C2: from_str(s) returns an error value, and does not crash, for every
\* text s whose UTF-8 encoding is not exactly 4 bytes long.
C2_WrongLengthIsAnError ==
  op = "from_str" /\ Len(as_bytes(arg)) # 4 => ret.tag = "Err" /\ ~panicked

\* C3: for a text s of exactly 4 bytes, from_str(s) ends as try_from on
\* those bytes does: both fail when a byte is no ASCII letter, otherwise
\* both succeed with equal values holding the bytes of s as given.
C3_FromStrAgreesWithTryFrom ==
  op = "from_str" /\ Len(as_bytes(arg)) = 4 =>
    LET b == as_bytes(arg)
        r == try_from(b)
    IN  /\ ret.tag \in {"Ok", "Err"}
        /\ ret.tag = r.tag
        /\ ret.tag = "Err" <=> ~AllLetters(b)
        /\ ret.tag = "Ok" =>
             /\ eq(ret.val, r.val)
             /\ eq(r.val, ret.val)
             /\ \A i \in 1..4 : ret.val.chunk[i] = b[i]

C3_Witness ==
  /\ op = "from_str"
  /\ arg = <<65, 122, 90, 97>>
  /\ ret.tag = "Ok"

\* C4: no operation panics: every call returns a value or an error value.
C4_NothingPanics == ret.tag # "Panic" /\ ~panicked

\* C5: for every text s of exactly 4 ASCII letters, from_str(s) succeeds
\* and to_string() of the value is s, same order and same case.
C5_TextRoundTrip ==
  /\ op = "from_str" /\ Len(arg) = 4 /\ AllLetters(arg) => ret.tag = "Ok"
  /\ op = "to_string" /\ origin = "from_str" => ret = Val(input)

C5_Witness ==
  /\ op = "to_string"
  /\ origin = "from_str"
  /\ input = <<65, 122, 90, 97>>
  /\ ret = Val(<<65, 122, 90, 97>>)

\* C6: is_critical, is_public and is_reserved_bit_valid are true iff byte
\* 0, 1, 2 is an ASCII uppercase letter, is_safe_to_copy iff byte 3 is an
\* ASCII lowercase letter.
C6_CasePredicates ==
  /\ op = "is_critical" => ret = Val(Upper(chunk_type.chunk[1]))
  /\ op = "is_public" => ret = Val(Upper(chunk_type.chunk[2]))
  /\ op = "is_reserved_bit_valid" => ret = Val(Upper(chunk_type.chunk[3]))
  /\ op = "is_safe_to_copy" => ret = Val(Lower(chunk_type.chunk[4]))

C6_Witness ==
  /\ op = "is_public"
  /\ chunk_type.chunk = <<97, 90, 97, 65>>
  /\ ret = Val(TRUE)

\* C7: is_valid() is true iff every byte is an ASCII letter and byte 2 is
\* uppercase, so a value from_str accepted with a lowercase byte 2 is not
\* valid.
C7_IsValid ==
  op = "is_valid" =>
    ret = Val(AllLetters(chunk_type.chunk) /\ Upper(chunk_type.chunk[3]))

C7_Witness ==
  /\ op = "is_valid"
  /\ origin = "from_str"
  /\ Lower(chunk_type.chunk[3])
  /\ ret = Val(FALSE)

\* C8: a == b is true iff the four bytes are the same at the same
\* positions, in both orders of the operands and for a value and itself;
\* values that differ in the case of one letter are not equal.
C8_EqIsBytewise ==
  /\ op \in {"eq", "eq_flipped"} =>
       ret = Val(\A i \in 1..4 : chunk_type.chunk[i] = arg.chunk[i])
  /\ op = "eq" /\ arg = chunk_type => ret = Val(TRUE)

C8_Witness ==
  /\ op = "eq"
  /\ chunk_type.chunk = <<65, 97, 65, 97>>
  /\ arg.chunk = <<97, 97, 65, 97>>
  /\ ret = Val(FALSE)

\* C9: a value returned by try_from or from_str holds only ASCII letters,
\* and after any calls on it still holds the bytes it was constructed
\* from: is_alphabetic() stays true and bytes() returns those bytes.
C9_FallibleValuesStayAlphabetic ==
  origin \in {"try_from", "from_str"} =>
    /\ chunk_type # NoValue
    /\ AllLetters(chunk_type.chunk)
    /\ \A i \in 1..4 : chunk_type.chunk[i] = GivenBytes[i]
    /\ op = "is_alphabetic" => ret = Val(TRUE)
    /\ op = "bytes" => ret = Val(GivenBytes)

C9_Witness ==
  /\ origin = "from_str"
  /\ op = "is_alphabetic"
  /\ ret = Val(TRUE)

\* C10: new(b) succeeds for every b and stores it unvalidated: bytes()
\* returns b, and is_alphabetic() is false when a byte of b is no letter.
C10_NewStoresVerbatim ==
  /\ op = "new" =>
       /\ ret.tag = "Val"
       /\ chunk_type # NoValue
       /\ \A i \in 1..4 : chunk_type.chunk[i] = arg[i]
  /\ origin = "new" =>
       /\ op = "bytes" => ret = Val(input)
       /\ op = "is_alphabetic" /\ ~AllLetters(input) => ret = Val(FALSE)

C10_Witness ==
  /\ origin = "new"
  /\ op = "is_alphabetic"
  /\ input = <<65, 195, 90, 97>>
  /\ ret = Val(FALSE)

====
